---------------------------- MODULE Spec2Model ----------------------------
(***************************************************************************)
(* A model of MAPL_GridCompSpecs_ACG.py: the option schema, the rule       *)
(* engine, digest, the MAPL_DataSpec emitters and the main program.        *)
(*                                                                         *)
(* Text.  A Python str is a sequence of pieces, each piece a TLA+ string;  *)
(* the text is the concatenation of the pieces.  Text that comes from the  *)
(* input (column names, cells, category names) has one character per       *)
(* piece, so that upper(), lower(), strip(), replace() and split() work on *)
(* characters.  A literal of the code is one piece.  Python's None is the  *)
(* value None below, which is no text: no cell holds a piece "None".       *)
(***************************************************************************)
EXTENDS Integers, Sequences, FiniteSets, TLC

None == <<"None">>

\* ------------------------------------------------------------------ str

LOWERCASE == <<"a","b","c","d","e","f","g","h","i","j","k","l","m",
               "n","o","p","q","r","s","t","u","v","w","x","y","z">>
UPPERCASE == <<"A","B","C","D","E","F","G","H","I","J","K","L","M",
               "N","O","P","Q","R","S","T","U","V","W","X","Y","Z">>
\* The characters str.strip() removes.
WHITESPACE == {" ", "\t", "\n", "\r", "\f"}

UpperChar(c) ==
    IF \E i \in DOMAIN LOWERCASE : LOWERCASE[i] = c
    THEN UPPERCASE[CHOOSE i \in DOMAIN LOWERCASE : LOWERCASE[i] = c]
    ELSE c

LowerChar(c) ==
    IF \E i \in DOMAIN UPPERCASE : UPPERCASE[i] = c
    THEN LOWERCASE[CHOOSE i \in DOMAIN UPPERCASE : UPPERCASE[i] = c]
    ELSE c

\* str.upper(), str.lower(), str.capitalize()
Upper(s) == [i \in DOMAIN s |-> UpperChar(s[i])]
Lower(s) == [i \in DOMAIN s |-> LowerChar(s[i])]
Capitalize(s) == [i \in DOMAIN s |-> IF i = 1 THEN UpperChar(s[i]) ELSE LowerChar(s[i])]

\* The text of s as one TLA+ string (the key of a dictionary lookup).
RECURSIVE Str(_)
Str(s) == IF s = <<>> THEN "" ELSE Head(s) \o Str(Tail(s))

\* str.replace(old, new), old one character, new a text.
RECURSIVE Replace(_, _, _)
Replace(s, old, new) ==
    IF s = <<>> THEN <<>>
    ELSE (IF Head(s) = old THEN new ELSE <<Head(s)>>) \o Replace(Tail(s), old, new)

\* str.lstrip(chars), str.rstrip(chars), str.strip(chars)
RECURSIVE LStrip(_, _)
LStrip(s, chars) ==
    IF s # <<>> /\ Head(s) \in chars THEN LStrip(Tail(s), chars) ELSE s

RECURSIVE RStrip(_, _)
RStrip(s, chars) ==
    IF s # <<>> /\ s[Len(s)] \in chars THEN RStrip(SubSeq(s, 1, Len(s) - 1), chars) ELSE s

Strip(s, chars) == RStrip(LStrip(s, chars), chars)

\* str.split(sep), sep one character: the list of the texts between the sep's.
RECURSIVE SplitLoop(_, _, _)
SplitLoop(s, sep, cur) ==
    IF s = <<>> THEN <<cur>>
    ELSE IF Head(s) = sep THEN <<cur>> \o SplitLoop(Tail(s), sep, <<>>)
    ELSE SplitLoop(Tail(s), sep, Append(cur, Head(s)))

Split(s, sep) == SplitLoop(s, sep, <<>>)

\* " " * n
RECURSIVE Spaces(_)
Spaces(n) == IF n <= 0 THEN "" ELSE " " \o Spaces(n - 1)

\* `name = value` followed by Body, which reads name.
Let(value, Body(_)) == Body(value)

\* Python truth of a str or None: `if value`.
Truthy(value) == value # None /\ value # <<>>

\* ------------------------------------------------------------ emit helpers

identity_emit(value) == value

string_emit(value) == IF Truthy(value) THEN <<"'">> \o value \o <<"'">> ELSE None

array_emit(value) == IF Truthy(value) THEN <<"[">> \o value \o <<"]">> ELSE None

mangle_name(name) ==
    IF Truthy(name) THEN string_emit(Replace(name, "*", <<"'//trim(comp_name)//'">>)) ELSE None

make_internal_name(name) ==
    IF Truthy(name) THEN Replace(name, "*", <<>>) ELSE None

\* make_entry_emit(dictionary): dictionary a function from TLA+ strings to texts.
make_entry_emit(dictionary, key) ==
    IF key # None /\ Str(key) \in DOMAIN dictionary THEN dictionary[Str(key)] ELSE None

DIMS_OPTIONS == << <<"MAPL_DimsVertOnly", 1, "z">>,
                   <<"MAPL_DimsHorzOnly", 2, "xy">>,
                   <<"MAPL_DimsHorzVert", 3, "xyz">> >>

DimsAliases == {DIMS_OPTIONS[i][3] : i \in DOMAIN DIMS_OPTIONS}
DimsEntries == {DIMS_OPTIONS[i][1] : i \in DOMAIN DIMS_OPTIONS}

DIMS_EMIT(key) ==
    make_entry_emit([alias \in DimsAliases |->
        <<DIMS_OPTIONS[CHOOSE i \in DOMAIN DIMS_OPTIONS : DIMS_OPTIONS[i][3] = alias][1]>>], key)

\* RANKS: entry -> rank
RANKS == [entry \in DimsEntries |->
             DIMS_OPTIONS[CHOOSE i \in DOMAIN DIMS_OPTIONS : DIMS_OPTIONS[i][1] = entry][2]]

VLOCATION_EMIT(key) ==
    make_entry_emit([k \in {"C", "E", "N"} |->
        CASE k = "C" -> <<"MAPL_VlocationCenter">>
          [] k = "E" -> <<"MAPL_VlocationEdge">>
          [] k = "N" -> <<"MAPL_VlocationNone">>], key)

RESTART_EMIT(key) ==
    make_entry_emit([k \in {"OPT", "SKIP", "REQ", "BOOT", "SKIPI"} |->
        CASE k = "OPT" -> <<"MAPL_RestartOptional">>
          [] k = "SKIP" -> <<"MAPL_RestartSkip">>
          [] k = "REQ" -> <<"MAPL_RestartRequired">>
          [] k = "BOOT" -> <<"MAPL_RestartBoot">>
          [] k = "SKIPI" -> <<"MAPL_RestartSkipInitial">>], key)

ADD2EXPORT_EMIT(key) ==
    make_entry_emit([k \in {"T", "F"} |->
        CASE k = "T" -> <<".true.">>
          [] k = "F" -> <<".false.">>], key)

\* ---------------------------------------------------------------- Option

\* The names and values handed to Enum(value = 'Option', names = {...}), in order.
OptionNames == <<
    [name |-> "SHORT_NAME", value |-> <<"short_name", "mangle_name", TRUE>>],
    [name |-> "NAME", value |-> <<"short_name", "mangle_name", TRUE>>],
    [name |-> "LONG_NAME", value |-> <<"long_name", "string_emit", TRUE>>],
    [name |-> "LONG NAME", value |-> <<"long_name", "string_emit", TRUE>>],
    [name |-> "UNITS", value |-> <<"units", "string_emit", TRUE>>],
    [name |-> "DIMS", value |-> <<"dims", "DIMS_EMIT", TRUE>>],
    [name |-> "VLOCATION", value |-> <<"vlocation", "VLOCATION_EMIT">>],
    [name |-> "VLOC", value |-> <<"vlocation", "VLOCATION_EMIT">>],
    [name |-> "ADD2EXPORT", value |-> <<"add2export", "ADD2EXPORT_EMIT">>],
    [name |-> "ADDEXP", value |-> <<"add2export", "ADD2EXPORT_EMIT">>],
    [name |-> "RESTART", value |-> <<"restart", "RESTART_EMIT">>],
    [name |-> "UNGRIDDED", value |-> <<"ungridded", "array_emit">>],
    [name |-> "UNGRID", value |-> <<"ungridded", "array_emit">>],
    [name |-> "FRIENDLYTO", value |-> <<"friendlyto", "string_emit">>],
    [name |-> "FRIEND2", value |-> <<"friendlyto", "string_emit">>],
    [name |-> "PRECISION", value |-> <<"precision">>],
    [name |-> "PREC", value |-> <<"precision">>],
    [name |-> "NUM_SUBTILES", value |-> <<"num_subtitles">>],
    [name |-> "NUMSUBS", value |-> <<"num_subtitles">>],
    [name |-> "AVERAGING_INTERVAL", value |-> <<"averaging_interval">>],
    [name |-> "AVINT", value |-> <<"averaging_interval">>],
    [name |-> "REFRESH_INTERVAL", value |-> <<"refresh_interval">>],
    [name |-> "HALOWIDTH", value |-> <<"halowidth">>],
    [name |-> "DEFAULT", value |-> <<"default">>],
    [name |-> "FIELD_TYPE", value |-> <<"field_type">>],
    [name |-> "STAGGERING", value |-> <<"staggering">>],
    [name |-> "ROTATION", value |-> <<"rotation">>],
    [name |-> "DATATYPE", value |-> <<"datatype">>],
    [name |-> "ATTR_INAMES", value |-> <<"attr_inames">>],
    [name |-> "ATT_RNAMES", value |-> <<"att_rnames">>],
    [name |-> "ATTR_IVALUES", value |-> <<"attr_ivalues">>],
    [name |-> "ATTR_RVALUES", value |-> <<"attr_rvalues">>],
    [name |-> "UNGRIDDED_NAME", value |-> <<"ungridded_name">>],
    [name |-> "UNGRIDDED_UNIT", value |-> <<"ungridded_unit">>],
    [name |-> "UNGRIDDED_COORDS", value |-> <<"ungridded_coords">>],
    [name |-> "CONDITION", value |-> <<"condition", "identity_emit", FALSE, FALSE>>],
    [name |-> "COND", value |-> <<"condition", "identity_emit", FALSE, FALSE>>],
    [name |-> "ALLOC", value |-> <<"alloc", "identity_emit", FALSE, FALSE>>],
    [name |-> "MANGLED_NAME", value |-> <<"mangled_name", "mangle_name", FALSE, FALSE>>],
    [name |-> "INTERNAL_NAME", value |-> <<"internal_name", "make_internal_name", FALSE, FALSE>>],
    [name |-> "RANK", value |-> <<"rank", "None", FALSE, FALSE>>] >>

\* Enum's rule: a name whose value equals an earlier name's value is an alias of that
\* member.  A member is named by the first name that has its value.
MemberIndex(i) ==
    CHOOSE j \in 1..i : /\ OptionNames[j].value = OptionNames[i].value
                        /\ \A k \in 1..(j - 1) : OptionNames[k].value # OptionNames[i].value

IsOptionName(key) == \E i \in DOMAIN OptionNames : OptionNames[i].name = key

\* A lookup that takes every name for a member of its own: Enum without aliases.
OptionLookup_without_aliases(key) == key

\* Option[key], for a key that is a name: the member.
OptionLookup(key) ==
    OptionNames[MemberIndex(CHOOSE i \in DOMAIN OptionNames : OptionNames[i].name = key)].name

\* list(Option): the members in definition order, aliases left out.
OptionMembers ==
    LET idx == {i \in DOMAIN OptionNames : MemberIndex(i) = i}
        RECURSIVE upto(_)
        upto(n) == IF n = 0 THEN <<>>
                   ELSE IF n \in idx THEN Append(upto(n - 1), OptionNames[n].name)
                   ELSE upto(n - 1)
    IN  upto(Len(OptionNames))

MemberValue(option) ==
    OptionNames[CHOOSE i \in DOMAIN OptionNames : OptionNames[i].name = option].value

\* OptionType.__init__(self, name_key, emit = None, mandatory = False, output = True)
name_key(option) == MemberValue(option)[1]

emit_of(option) ==
    LET v == MemberValue(option)
    IN  IF Len(v) >= 2 /\ v[2] # "None" THEN v[2] ELSE "identity_emit"

mandatory(option) == LET v == MemberValue(option) IN IF Len(v) >= 3 THEN v[3] ELSE FALSE

output(option) == LET v == MemberValue(option) IN IF Len(v) >= 4 THEN v[4] ELSE TRUE

\* OptionType.__call__(self, value)
OptionCall(option, value) ==
    LET e == emit_of(option)
    IN  CASE e = "identity_emit" -> identity_emit(value)
          [] e = "string_emit" -> string_emit(value)
          [] e = "array_emit" -> array_emit(value)
          [] e = "mangle_name" -> mangle_name(value)
          [] e = "make_internal_name" -> make_internal_name(value)
          [] e = "DIMS_EMIT" -> DIMS_EMIT(value)
          [] e = "VLOCATION_EMIT" -> VLOCATION_EMIT(value)
          [] e = "RESTART_EMIT" -> RESTART_EMIT(value)
          [] e = "ADD2EXPORT_EMIT" -> ADD2EXPORT_EMIT(value)

\* OptionType.get_mandatory_options()
get_mandatory_options == SelectSeq(OptionMembers, mandatory)

\* ------------------------------------------------------------------ dict

\* An insertion-ordered dict: a sequence of [k, v] with distinct keys.
HasKey(d, k) == \E i \in DOMAIN d : d[i].k = k

GetItem(d, k) == d[CHOOSE i \in DOMAIN d : d[i].k = k].v

\* dict.get(k)
Get(d, k) == IF HasKey(d, k) THEN GetItem(d, k) ELSE None

\* d[k] = v: a present key keeps its place.
SetItem(d, k, v) ==
    IF HasKey(d, k)
    THEN [i \in DOMAIN d |-> IF d[i].k = k THEN [k |-> k, v |-> v] ELSE d[i]]
    ELSE Append(d, [k |-> k, v |-> v])

Keys(d) == [i \in DOMAIN d |-> d[i].k]

\* ------------------------------------------------------------ exceptions

\* An exception: its Python class, the expression that raised it, its message.
NoError == [exc |-> "none", raised |-> "", msg |-> <<>>]

Raise(exc, raised, msg) == [exc |-> exc, raised |-> raised, msg |-> msg]


\* ------------------------------------------------------------ rule engine

\* An operand of a relation: an Option member, or a literal.
OptionOperand(option) == [kind |-> "Option", option |-> option, text |-> <<>>]
Literal(text) == [kind |-> "literal", option |-> "", text |-> text]

\* relation(relop, lhs, rhs, values): [exc, result]; values[lhs] of an absent key
\* raises KeyError.
relation(relop, lhs, rhs, values) ==
    IF lhs.kind = "Option" /\ ~HasKey(values, lhs.option)
    THEN [exc |-> Raise("KeyError", "values[lhs]", <<lhs.option>>), result |-> FALSE]
    ELSE IF rhs.kind = "Option" /\ ~HasKey(values, rhs.option)
    THEN [exc |-> Raise("KeyError", "values[rhs]", <<rhs.option>>), result |-> FALSE]
    ELSE LET l == IF lhs.kind = "Option" THEN GetItem(values, lhs.option) ELSE lhs.text
             r == IF rhs.kind = "Option" THEN GetItem(values, rhs.option) ELSE rhs.text
         IN  [exc |-> NoError,
              result |-> IF relop = "eq" THEN l = r ELSE l # r]

equals(lhs, rhs, values) == relation("eq", lhs, rhs, values)
\* does_not_equal built on operator.eq instead of operator.ne.
does_not_equal_using_eq(lhs, rhs, values) == relation("eq", lhs, rhs, values)

does_not_equal(lhs, rhs, values) == relation("ne", lhs, rhs, values)

\* condition = namedtuple('condition', 'option rel expected message')
condition(option, rel, expected, message) ==
    [option |-> option, rel |-> rel, expected |-> expected, message |-> message]

\* Rule.predicate(option, rel, expected), applied to values
predicate(option, rel, expected, values) ==
    IF rel = "equals" THEN equals(OptionOperand(option), Literal(expected), values)
    ELSE does_not_equal(OptionOperand(option), Literal(expected), values)

\* joiners = {all: (' and ', False), any: (' or ', True)}
rule_joiner(joiner) == IF joiner = "all" THEN " and " ELSE " or "
\* joiners with (' or ', False) for any: no break on a true condition.
break_on_true_never(joiner) == FALSE

break_on_true(joiner) == joiner = "any"

\* all(results), any(results)
JoinerApply(joiner, results) ==
    IF joiner = "all" THEN \A i \in DOMAIN results : results[i]
    ELSE \E i \in DOMAIN results : results[i]

\* rule_joiner.join(messages), messages a list of texts
RECURSIVE JoinTexts(_, _)
JoinTexts(sep, texts) ==
    IF texts = <<>> THEN <<>>
    ELSE IF Len(texts) = 1 THEN texts[1]
    ELSE texts[1] \o <<sep>> \o JoinTexts(sep, Tail(texts))

\* The loop of rule_check from condition i on: [exc, results, messages].
RECURSIVE RuleLoop(_, _, _, _, _, _)
RuleLoop(conditions, joiner, values, i, results, messages) ==
    IF i > Len(conditions)
    THEN [exc |-> NoError, results |-> results, messages |-> messages]
    ELSE Let(predicate(conditions[i].option, conditions[i].rel, conditions[i].expected, values),
             LAMBDA test :
                IF test.exc # NoError
                THEN [exc |-> test.exc, results |-> results, messages |-> messages]
                ELSE IF test.result
                THEN IF break_on_true(joiner)
                     THEN [exc |-> NoError,
                           results |-> Append(results, TRUE),
                           messages |-> Append(messages, <<name_key(conditions[i].option), " ",
                                                           conditions[i].message>>)]
                     ELSE RuleLoop(conditions, joiner, values, i + 1,
                                   Append(results, TRUE),
                                   Append(messages, <<name_key(conditions[i].option), " ",
                                                      conditions[i].message>>))
                ELSE RuleLoop(conditions, joiner, values, i + 1,
                              Append(results, FALSE), messages))

\* Rule(conditions, joiner).check(values): the exception raised, or NoError.
rule_check(conditions, joiner, values) ==
    Let(RuleLoop(conditions, joiner, values, 1, <<>>, <<>>),
        LAMBDA r :
            IF r.exc # NoError THEN r.exc
            ELSE IF JoinerApply(joiner, r.results)
            THEN Raise("RuntimeError", "rule_check", JoinTexts(rule_joiner(joiner), r.messages))
            ELSE NoError)

\* The rules of check_option_values, in order.
rules == <<
    [conditions |-> <<
        condition("DIMS", "equals", <<"MAPL_DimsHorzVert">>, "is equal to MAPL_DimsHorzVert"),
        condition("VLOCATION", "equals", <<"MAPL_VlocationNone">>, "is equal to MAPL_VlocationNone") >>,
     joiner |-> "all"],
    [conditions |-> <<
        condition("DIMS", "equals", <<"MAPL_DimsHorzOnly">>, "is equal to MAPL_DimsHorzOnly"),
        condition("VLOCATION", "does_not_equal", <<"MAPL_VlocationNone">>,
                  "is not equal to MAPL_VlocationNone") >>,
     joiner |-> "all"] >>

\* check_option_values(values): the first exception a rule raises, or NoError.
RECURSIVE RulesLoop(_, _)
RulesLoop(i, values) ==
    IF i > Len(rules) THEN NoError
    ELSE Let(rule_check(rules[i].conditions, rules[i].joiner, values),
             LAMBDA e : IF e # NoError THEN e ELSE RulesLoop(i + 1, values))

check_option_values(values) == RulesLoop(1, values)

\* ---------------------------------------------------------------- digest

\* compute_rank without extra_rank: the rank of dims alone.
compute_rank_of_dims_only(dims, ungridded) ==
    IF dims # None /\ Str(dims) \in DOMAIN RANKS
    THEN [exc |-> NoError, rank |-> RANKS[Str(dims)]]
    ELSE [exc |-> Raise("KeyError", "RANKS[dims]", dims), rank |-> 0]

\* compute_rank(dims, ungridded): [exc, rank]
compute_rank(dims, ungridded) ==
    LET extra_rank == IF Truthy(ungridded)
                      THEN Len(Split(Strip(ungridded, {"]", "["}), ","))
                      ELSE 0
    IN  IF dims # None /\ Str(dims) \in DOMAIN RANKS
        THEN [exc |-> NoError, rank |-> RANKS[Str(dims)] + extra_rank]
        ELSE [exc |-> Raise("KeyError", "RANKS[dims]", dims), rank |-> 0]

\* The loop over the columns with a column that names no Option left out instead
\* of raising KeyError.
RECURSIVE ColumnLoop_skipping_unknown(_, _, _)
ColumnLoop_skipping_unknown(spec, i, st) ==
    IF i > Len(spec) THEN st
    ELSE Let(Str(Upper(spec[i].k)), LAMBDA key :
         IF ~IsOptionName(key)
         THEN ColumnLoop_skipping_unknown(spec, i + 1, st)
         ELSE Let(OptionLookup(key), LAMBDA option :
              Let(OptionCall(option, spec[i].v), LAMBDA option_value :
              Let(SetItem(st.option_values, option, option_value), LAMBDA option_values :
                  IF option = "SHORT_NAME"
                  THEN ColumnLoop_skipping_unknown(spec, i + 1,
                         [st EXCEPT !.option_values =
                            SetItem(SetItem(option_values, "MANGLED_NAME",
                                            OptionCall("MANGLED_NAME", spec[i].v)),
                                    "INTERNAL_NAME",
                                    OptionCall("INTERNAL_NAME", spec[i].v))])
                  ELSE IF option = "DIMS"
                  THEN ColumnLoop_skipping_unknown(spec, i + 1,
                         [st EXCEPT !.option_values = option_values, !.dims = option_value])
                  ELSE IF option = "UNGRIDDED"
                  THEN ColumnLoop_skipping_unknown(spec, i + 1,
                         [st EXCEPT !.option_values = option_values,
                                    !.ungridded = option_value])
                  ELSE ColumnLoop_skipping_unknown(spec, i + 1,
                         [st EXCEPT !.option_values = option_values])))))

\* The loop over the columns of one spec (a list of [k: column, v: cell]) from
\* column i on, st = [exc, option_values, dims, ungridded].
RECURSIVE ColumnLoop(_, _, _)
ColumnLoop(spec, i, st) ==
    IF i > Len(spec) THEN st
    ELSE Let(Str(Upper(spec[i].k)), LAMBDA key :
         IF ~IsOptionName(key)
         THEN [st EXCEPT !.exc = Raise("KeyError", "Option[column.upper()]", <<key>>)]
         ELSE Let(OptionLookup(key), LAMBDA option :
              Let(OptionCall(option, spec[i].v), LAMBDA option_value :
              Let(SetItem(st.option_values, option, option_value), LAMBDA option_values :
                  IF option = "SHORT_NAME"
                  THEN ColumnLoop(spec, i + 1,
                         [st EXCEPT !.option_values =
                            SetItem(SetItem(option_values, "MANGLED_NAME",
                                            OptionCall("MANGLED_NAME", spec[i].v)),
                                    "INTERNAL_NAME",
                                    OptionCall("INTERNAL_NAME", spec[i].v))])
                  ELSE IF option = "DIMS"
                  THEN ColumnLoop(spec, i + 1,
                         [st EXCEPT !.option_values = option_values, !.dims = option_value])
                  ELSE IF option = "UNGRIDDED"
                  THEN ColumnLoop(spec, i + 1,
                         [st EXCEPT !.option_values = option_values,
                                    !.ungridded = option_value])
                  ELSE ColumnLoop(spec, i + 1, [st EXCEPT !.option_values = option_values])))))

\* The first mandatory option that is no key of option_values, or "" when none.
RECURSIVE MandatoryLoop(_, _, _)
MandatoryLoop(mandatory_options, i, option_values) ==
    IF i > Len(mandatory_options) THEN ""
    ELSE IF ~HasKey(option_values, mandatory_options[i]) THEN mandatory_options[i]
    ELSE MandatoryLoop(mandatory_options, i + 1, option_values)

\* digest's loop body with the check of the mandatory options moved after the
\* computation of the rank and the check of the rules.
digest_spec_checking_mandatory_last(spec) ==
    Let(ColumnLoop(spec, 1, [exc |-> NoError, option_values |-> <<>>,
                             dims |-> None, ungridded |-> None]), LAMBDA st :
    IF st.exc # NoError THEN [exc |-> st.exc, option_values |-> <<>>]
    ELSE Let(compute_rank(st.dims, st.ungridded), LAMBDA rank :
    IF rank.exc # NoError THEN [exc |-> rank.exc, option_values |-> <<>>]
    ELSE Let(SetItem(st.option_values, "RANK", rank.rank), LAMBDA option_values :
         Let(check_option_values(option_values), LAMBDA e :
         IF e # NoError THEN [exc |-> e, option_values |-> <<>>]
         ELSE Let(MandatoryLoop(get_mandatory_options, 1, st.option_values), LAMBDA missing :
              IF missing # ""
              THEN [exc |-> Raise("RuntimeError", "mandatory",
                                  <<missing, " is missing from spec.">>),
                    option_values |-> <<>>]
              ELSE [exc |-> NoError, option_values |-> option_values])))))

\* The body of digest's loop over the specs of a category, for one spec:
\* [exc, option_values].
digest_spec(spec) ==
    Let(ColumnLoop(spec, 1, [exc |-> NoError, option_values |-> <<>>,
                             dims |-> None, ungridded |-> None]), LAMBDA st :
    IF st.exc # NoError THEN [exc |-> st.exc, option_values |-> <<>>]
    ELSE Let(MandatoryLoop(get_mandatory_options, 1, st.option_values), LAMBDA missing :
    IF missing # ""
    THEN [exc |-> Raise("RuntimeError", "mandatory", <<missing, " is missing from spec.">>),
          option_values |-> <<>>]
    ELSE Let(compute_rank(st.dims, st.ungridded), LAMBDA rank :
    IF rank.exc # NoError THEN [exc |-> rank.exc, option_values |-> <<>>]
    ELSE Let(SetItem(st.option_values, "RANK", rank.rank), LAMBDA option_values :
         Let(check_option_values(option_values), LAMBDA e :
             IF e # NoError THEN [exc |-> e, option_values |-> <<>>]
             ELSE [exc |-> NoError, option_values |-> option_values])))))

\* --------------------------------------------------- get_fortran_logical

TRUE_VALUE == ".true."
FALSE_VALUE == ".false."
TRUE_VALUES == {TRUE_VALUE, "t", "true", ".t.", "yes", "y", "si", "oui", "sim"}
FALSE_VALUES == {FALSE_VALUE, "f", "false", ".f.", "no", "n", "no", "non", "nao"}

\* get_fortran_logical without .lower(): the literals match in lower case only.
get_fortran_logical_case_sensitive(value_in) ==
    IF value_in = None
    THEN [exc |-> Raise("ValueError", "get_fortran_logical",
                        <<"'None' is not valid for get_fortran_logical.">>),
          val_out |-> ""]
    ELSE IF Str(Strip(value_in, WHITESPACE)) \in TRUE_VALUES
    THEN [exc |-> NoError, val_out |-> TRUE_VALUE]
    ELSE IF Str(Strip(value_in, WHITESPACE)) \in FALSE_VALUES
    THEN [exc |-> NoError, val_out |-> FALSE_VALUE]
    ELSE [exc |-> Raise("ValueError", "get_fortran_logical",
                        <<"Unrecognized logical: ">> \o value_in),
          val_out |-> ""]

\* get_fortran_logical(value_in): [exc, val_out]
get_fortran_logical(value_in) ==
    IF value_in = None
    THEN [exc |-> Raise("ValueError", "get_fortran_logical",
                        <<"'None' is not valid for get_fortran_logical.">>),
          val_out |-> ""]
    ELSE IF Str(Lower(Strip(value_in, WHITESPACE))) \in TRUE_VALUES
    THEN [exc |-> NoError, val_out |-> TRUE_VALUE]
    ELSE IF Str(Lower(Strip(value_in, WHITESPACE))) \in FALSE_VALUES
    THEN [exc |-> NoError, val_out |-> FALSE_VALUE]
    ELSE [exc |-> Raise("ValueError", "get_fortran_logical",
                        <<"Unrecognized logical: ">> \o value_in),
          val_out |-> ""]

\* ----------------------------------------------------------- MAPL_DataSpec

DELIMITER == ", "
TERMINATOR == "_RC)"

\* MAPL_DataSpec(category, spec_values, indent)
MAPL_DataSpec(category, spec_values, indent) ==
    [category |-> category,
     indent |-> indent,
     mangled_name |-> GetItem(spec_values, "MANGLED_NAME"),
     internal_name |-> GetItem(spec_values, "INTERNAL_NAME"),
     condition |-> Get(spec_values, "CONDITION"),
     spec_values |-> spec_values]

\* An emitter's result: the exception it raised (or NoError), the text it returned
\* (when it raised none) and the MAPL_DataSpec it leaves, whose indent it may have
\* changed.
Emitted(exc, text, self) == [exc |-> exc, text |-> text, self |-> self]

TypeError == Raise("TypeError", "str + None", <<"can only concatenate str (not \"NoneType\") to str">>)

JoinTypeError == Raise("TypeError", "str.join", <<"sequence item: expected str instance, NoneType found">>)

newline(self) == "\n" \o Spaces(self.indent)

continue_line(self) == <<"&", newline(self), "& ">>

emit_header(self) ==
    IF Truthy(self.condition)
    THEN LET inner == [self EXCEPT !.indent = self.indent + 3]
         IN  Emitted(NoError,
                     <<newline(self), "if (">> \o self.condition \o <<") then", newline(inner)>>,
                     inner)
    ELSE Emitted(NoError, <<newline(self)>>, self)

\* emit_arg without the test `if value`: an option without value is emitted with
\* an empty value.
emit_arg_without_test(self, option) ==
    LET value == Get(self.spec_values, option)
    IN  <<name_key(option), "=">> \o (IF Truthy(value) THEN value ELSE <<>>)
        \o <<DELIMITER>> \o continue_line(self)

emit_arg(self, option) ==
    LET value == Get(self.spec_values, option)
    IN  IF Truthy(value)
        THEN <<name_key(option), "=">> \o value \o <<DELIMITER>> \o continue_line(self)
        ELSE <<>>

\* The loop of emit_args over the options of spec_values, from the i-th on.
RECURSIVE ArgsLoop(_, _)
ArgsLoop(self, i) ==
    IF i > Len(self.spec_values) THEN <<>>
    ELSE (IF output(self.spec_values[i].k) THEN emit_arg(self, self.spec_values[i].k) ELSE <<>>)
         \o ArgsLoop(self, i + 1)

emit_args(self) ==
    LET inner == [self EXCEPT !.indent = self.indent + 5]
    IN  Emitted(NoError,
                <<"call MAPL_Add">> \o Capitalize(self.category) \o <<"Spec(gc,">>
                    \o continue_line(inner) \o ArgsLoop(inner, 1)
                    \o <<TERMINATOR, newline(inner)>>,
                [inner EXCEPT !.indent = inner.indent - 5])

\* emit_trailer that disregards nullify: the guard is closed without an else
\* branch.
emit_trailer_without_else(self, nullify) ==
    IF Truthy(self.condition)
    THEN LET out == [self EXCEPT !.indent = self.indent - 3]
         IN  Emitted(NoError, <<newline(out), "endif", newline(out)>>, out)
    ELSE Emitted(NoError, <<newline(self)>>, self)

\* emit_trailer without `self.indent = self.indent - 3`: the text is that of
\* emit_trailer, the indent is left as emit_header raised it.
emit_trailer_keeping_indent(self, nullify) ==
    IF Truthy(self.condition)
    THEN LET out == [self EXCEPT !.indent = self.indent - 3]
             name == self.internal_name
         IN  IF nullify /\ name = None
             THEN Emitted(TypeError, <<>>, self)
             ELSE Emitted(NoError,
                          <<newline(out)>>
                          \o (IF nullify
                              THEN <<"else", newline(out), "   nullify(">> \o name
                                   \o <<")", newline(out)>>
                              ELSE <<>>)
                          \o <<"endif", newline(out)>>,
                          self)
    ELSE Emitted(NoError, <<newline(self)>>, self)

emit_trailer(self, nullify) ==
    IF Truthy(self.condition)
    THEN LET out == [self EXCEPT !.indent = self.indent - 3]
             name == self.internal_name
         IN  IF nullify /\ name = None
             THEN Emitted(TypeError, <<>>, out)
             ELSE Emitted(NoError,
                          <<newline(out)>>
                          \o (IF nullify
                              THEN <<"else", newline(out), "   nullify(">> \o name
                                   \o <<")", newline(out)>>
                              ELSE <<>>)
                          \o <<"endif", newline(out)>>,
                          out)
    ELSE Emitted(NoError, <<newline(self)>>, self)

\* emit_specs with emit_trailer(nullify=True) in place of nullify=False.
emit_specs_nullifying(self) ==
    Let(emit_header(self), LAMBDA h :
    Let(emit_args(h.self), LAMBDA a :
    Let(emit_trailer(a.self, TRUE), LAMBDA t :
        Emitted(t.exc, h.text \o a.text \o t.text, t.self))))

emit_specs(self) ==
    Let(emit_header(self), LAMBDA h :
    Let(emit_args(h.self), LAMBDA a :
    Let(emit_trailer(a.self, FALSE), LAMBDA t :
        Emitted(NoError, h.text \o a.text \o t.text, t.self))))

\* ',:' * n
RECURSIVE Repeat(_, _)
Repeat(piece, n) == IF n <= 0 THEN <<>> ELSE <<piece>> \o Repeat(piece, n - 1)

\* emit_declare_pointers with ',:' * rank in place of ',:' * (rank - 1).
emit_declare_pointers_repeating_rank(self) ==
    LET dimension == <<"dimension(:">> \o Repeat(",:", GetItem(self.spec_values, "RANK"))
                     \o <<")">>
        kind == IF HasKey(self.spec_values, "PRECISION")
                THEN <<"(kind=">> \o Get(self.spec_values, "PRECISION") \o <<")">>
                ELSE <<>>
    IN  IF self.internal_name = None
        THEN Emitted(TypeError, <<>>, self)
        ELSE Emitted(NoError,
                     <<newline(self), "real">> \o kind \o <<", pointer, ">> \o dimension
                         \o <<" :: ">> \o self.internal_name,
                     self)

emit_declare_pointers(self) ==
    LET dimension == <<"dimension(:">> \o Repeat(",:", GetItem(self.spec_values, "RANK") - 1)
                     \o <<")">>
        kind == IF HasKey(self.spec_values, "PRECISION")
                THEN <<"(kind=">> \o Get(self.spec_values, "PRECISION") \o <<")">>
                ELSE <<>>
    IN  IF self.internal_name = None
        THEN Emitted(TypeError, <<>>, self)
        ELSE Emitted(NoError,
                     <<newline(self), "real">> \o kind \o <<", pointer, ">> \o dimension
                         \o <<" :: ">> \o self.internal_name,
                     self)

\* emit_pointer_alloc without the tests of value: get_fortran_logical is called
\* whatever the value is.
emit_pointer_alloc_without_tests(self) ==
    Let(get_fortran_logical(Get(self.spec_values, "ALLOC")), LAMBDA logical :
        IF logical.exc # NoError
        THEN [exc |-> logical.exc, listout |-> <<>>]
        ELSE [exc |-> NoError,
              listout |-> << <<name_key("ALLOC"), "=", logical.val_out>> >>])

\* emit_pointer_alloc(self): [exc, listout], listout a list of texts
emit_pointer_alloc(self) ==
    Let(Get(self.spec_values, "ALLOC"), LAMBDA value :
    IF ~Truthy(value) THEN [exc |-> NoError, listout |-> <<>>]
    ELSE Let(Lower(Strip(value, WHITESPACE)), LAMBDA stripped :
         IF Len(stripped) = 0 THEN [exc |-> NoError, listout |-> <<>>]
         ELSE Let(get_fortran_logical(stripped), LAMBDA logical :
              IF logical.exc # NoError
              THEN [exc |-> logical.exc, listout |-> <<>>]
              ELSE [exc |-> NoError,
                    listout |-> << <<name_key("ALLOC"), "=", logical.val_out>> >>])))

\* emit_get_pointers(self): the operands are evaluated left to right (emit_header,
\* emit_pointer_alloc, emit_trailer), then joined.
emit_get_pointers(self) ==
    Let(emit_header(self), LAMBDA h :
    Let(emit_pointer_alloc(h.self), LAMBDA alloc :
    IF alloc.exc # NoError THEN Emitted(alloc.exc, <<>>, h.self)
    ELSE Let(emit_trailer(h.self, TRUE), LAMBDA t :
         IF t.exc # NoError THEN Emitted(t.exc, <<>>, t.self)
         ELSE IF self.internal_name = None \/ self.mangled_name = None
         THEN Emitted(JoinTypeError, <<>>, t.self)
         ELSE Emitted(NoError,
                      JoinTexts(DELIMITER,
                                << h.text \o <<"call MAPL_GetPointer(">> \o self.category,
                                   self.internal_name, self.mangled_name >>
                                \o alloc.listout \o << <<TERMINATOR>> \o t.text >>),
                      t.self))))

\* ------------------------------------------------------------ the program

VARIABLES
    parsed_specs,    \* digest's argument: an ordered dict category -> list of specs
    args,            \* the output options given on the command line
    pc,              \* where the program is
    d_category,      \* digest: index of the category being digested
    d_spec,          \* digest: index of the spec being digested
    category_specs,  \* digest: the specs digested for the category so far
    digested_specs,  \* digest: ordered dict category -> list of option_values
    specs,           \* main: digest's result, once it returned
    files,           \* the output files: what was written to each
    g_category,      \* generation loop: index in CATEGORIES
    g_spec,          \* generation loop: index of the spec in the category
    spec,            \* the MAPL_DataSpec of the generation loop
    error,           \* the exception that ended the program, or NoError
    call,            \* the last direct call of a function under test
    ncalls,          \* the number of direct calls made
    value_in,        \* the argument of the direct calls of get_fortran_logical
    rule,            \* the Rule of the direct calls of Rule.check: conditions and joiner
    rule_values      \* the values the Rule is checked on

vars == <<parsed_specs, args, pc, d_category, d_spec, category_specs, digested_specs,
          specs, files, g_category, g_spec, spec, error, call, ncalls, value_in, rule, rule_values>>

IMPORT == <<"I","M","P","O","R","T">>
EXPORT == <<"E","X","P","O","R","T">>
INTERNAL == <<"I","N","T","E","R","N","A","L">>

CATEGORIES == <<IMPORT, EXPORT, INTERNAL>>

DefaultIndent == 3

\* The dest of each output option of the argument parser.
Streams == {"import_specs", "export_specs", "internal_specs", "get_pointers", "declare_pointers"}

\* category.lower() + "_specs"
SpecsStream(category) == Str(Lower(category)) \o "_specs"

\* header(): the warning placed at the top of each generated file, by its main line.
header == <<"! W A R N I N G: This code fragment is automatically generated by MAPL_GridCompSpecs_ACG.">>

Unbound == [bound |-> FALSE, value |-> <<>>]
Bound(value) == [bound |-> TRUE, value |-> value]

NoSpec == [category |-> <<>>, indent |-> 0, mangled_name |-> None, internal_name |-> None,
           condition |-> None, spec_values |-> <<>>]

NoRule == [conditions |-> <<>>, joiner |-> ""]

NoCall == [function |-> "", exc |-> NoError, text |-> <<>>, indent_before |-> 0]

\* A file that was not asked for (None), and open_with_header(filename).
NotOpened == [state |-> "None", written |-> <<>>]
open_with_header == [state |-> "open", written |-> <<[text |-> header, category |-> <<>>, index |-> 0]>>]

\* f.write(text); category and index record which spec the text was emitted for.
Write(f, text, category, index) ==
    [f EXCEPT !.written = Append(@, [text |-> text, category |-> category, index |-> index])]

\* The program before digest is called.
Start ==
    /\ pc = "digest"
    /\ d_category = 1
    /\ d_spec = 1
    /\ category_specs = <<>>
    /\ digested_specs = <<>>
    /\ specs = Unbound
    /\ files = [s \in Streams |-> NotOpened]
    /\ g_category = 1
    /\ g_spec = 1
    /\ spec = NoSpec
    /\ error = NoError
    /\ call = NoCall
    /\ ncalls = 0
    /\ value_in = None
    /\ rule = NoRule
    /\ rule_values = <<>>

\* The step of digest's loop with category_specs.insert(0, option_values) in
\* place of category_specs.append(option_values).
DigestSpec_inserting_first ==
    /\ pc = "digest"
    /\ d_category <= Len(parsed_specs)
    /\ d_spec <= Len(parsed_specs[d_category].v)
    /\ \E r \in {digest_spec(parsed_specs[d_category].v[d_spec])} :
           IF r.exc # NoError
           THEN /\ error' = r.exc
                /\ pc' = "raised"
                /\ UNCHANGED <<d_spec, category_specs>>
           ELSE /\ category_specs' = <<r.option_values>> \o category_specs
                /\ d_spec' = d_spec + 1
                /\ UNCHANGED <<error, pc>>
    /\ UNCHANGED <<parsed_specs, args, d_category, digested_specs, specs, files,
                   g_category, g_spec, spec, call, ncalls, value_in, rule, rule_values>>

\* digest, one spec of the loop `for spec in specs[category]`.
DigestSpec ==
    /\ pc = "digest"
    /\ d_category <= Len(parsed_specs)
    /\ d_spec <= Len(parsed_specs[d_category].v)
    /\ \E r \in {digest_spec(parsed_specs[d_category].v[d_spec])} :
           IF r.exc # NoError
           THEN /\ error' = r.exc
                /\ pc' = "raised"
                /\ UNCHANGED <<d_spec, category_specs>>
           ELSE /\ category_specs' = Append(category_specs, r.option_values)
                /\ d_spec' = d_spec + 1
                /\ UNCHANGED <<error, pc>>
    /\ UNCHANGED <<parsed_specs, args, d_category, digested_specs, specs, files,
                   g_category, g_spec, spec, call, ncalls, value_in, rule, rule_values>>

\* digest, the end of a category: digested_specs[category] = category_specs.
DigestCategory ==
    /\ pc = "digest"
    /\ d_category <= Len(parsed_specs)
    /\ d_spec > Len(parsed_specs[d_category].v)
    /\ digested_specs' = SetItem(digested_specs, parsed_specs[d_category].k, category_specs)
    /\ category_specs' = <<>>
    /\ d_category' = d_category + 1
    /\ d_spec' = 1
    /\ UNCHANGED <<parsed_specs, args, pc, specs, files, g_category, g_spec, spec, error,
                   call, ncalls, value_in, rule, rule_values>>

\* digest returns: specs = digest(parsed_specs).
DigestReturn ==
    /\ pc = "digest"
    /\ d_category > Len(parsed_specs)
    /\ specs' = Bound(digested_specs)
    /\ pc' = "open"
    /\ UNCHANGED <<parsed_specs, args, d_category, d_spec, category_specs, digested_specs,
                   files, g_category, g_spec, spec, error, call, ncalls, value_in, rule, rule_values>>

\* open all output files
OpenFiles ==
    /\ pc = "open"
    /\ files' = [s \in Streams |-> IF s \in args THEN open_with_header ELSE NotOpened]
    /\ g_category' = 1
    /\ g_spec' = 1
    /\ pc' = "for_spec"
    /\ UNCHANGED <<parsed_specs, args, d_category, d_spec, category_specs, digested_specs,
                   specs, spec, error, call, ncalls, value_in, rule, rule_values>>

HasNextSpec ==
    /\ g_category <= Len(CATEGORIES)
    /\ HasKey(specs.value, CATEGORIES[g_category])
    /\ g_spec <= Len(GetItem(specs.value, CATEGORIES[g_category]))

\* spec = MAPL_DataSpec(category.lower(), spec_values)
ForSpec ==
    /\ pc = "for_spec"
    /\ HasNextSpec
    /\ spec' = MAPL_DataSpec(Lower(CATEGORIES[g_category]),
                             GetItem(specs.value, CATEGORIES[g_category])[g_spec],
                             DefaultIndent)
    /\ pc' = "emit_specs"
    /\ UNCHANGED <<parsed_specs, args, d_category, d_spec, category_specs, digested_specs,
                   specs, files, g_category, g_spec, error, call, ncalls, value_in, rule, rule_values>>

\* The category is not in specs, or its specs are exhausted: the next category.
ForCategory ==
    /\ pc = "for_spec"
    /\ g_category <= Len(CATEGORIES)
    /\ ~HasNextSpec
    /\ g_category' = g_category + 1
    /\ g_spec' = 1
    /\ UNCHANGED <<parsed_specs, args, pc, d_category, d_spec, category_specs,
                   digested_specs, specs, files, spec, error, call, ncalls, value_in, rule, rule_values>>

\* if f_specs[category]: f_specs[category].write(spec.emit_specs())
WriteSpecs ==
    /\ pc = "emit_specs"
    /\ IF files[SpecsStream(CATEGORIES[g_category])].state = "open"
       THEN \E e \in {emit_specs(spec)} :
                /\ files' = [files EXCEPT ![SpecsStream(CATEGORIES[g_category])] =
                                Write(@, e.text, CATEGORIES[g_category], g_spec)]
                /\ spec' = e.self
       ELSE UNCHANGED <<files, spec>>
    /\ pc' = "emit_declare_pointers"
    /\ UNCHANGED <<parsed_specs, args, d_category, d_spec, category_specs, digested_specs,
                   specs, g_category, g_spec, error, call, ncalls, value_in, rule, rule_values>>

\* if f_declare_pointers: f_declare_pointers.write(spec.emit_declare_pointers())
WriteDeclarePointers ==
    /\ pc = "emit_declare_pointers"
    /\ IF files["declare_pointers"].state # "open"
       THEN /\ pc' = "emit_get_pointers"
            /\ UNCHANGED <<files, spec, error>>
       ELSE \E e \in {emit_declare_pointers(spec)} :
                IF e.exc # NoError
                THEN /\ error' = e.exc
                     /\ pc' = "raised"
                     /\ spec' = e.self
                     /\ UNCHANGED files
                ELSE /\ files' = [files EXCEPT !["declare_pointers"] =
                                     Write(@, e.text, CATEGORIES[g_category], g_spec)]
                     /\ spec' = e.self
                     /\ pc' = "emit_get_pointers"
                     /\ UNCHANGED error
    /\ UNCHANGED <<parsed_specs, args, d_category, d_spec, category_specs, digested_specs,
                   specs, g_category, g_spec, call, ncalls, value_in, rule, rule_values>>

\* if f_get_pointers: f_get_pointers.write(spec.emit_get_pointers())
WriteGetPointers ==
    /\ pc = "emit_get_pointers"
    /\ IF files["get_pointers"].state # "open"
       THEN /\ pc' = "for_spec"
            /\ g_spec' = g_spec + 1
            /\ UNCHANGED <<files, spec, error>>
       ELSE \E e \in {emit_get_pointers(spec)} :
                IF e.exc # NoError
                THEN /\ error' = e.exc
                     /\ pc' = "raised"
                     /\ spec' = e.self
                     /\ UNCHANGED <<files, g_spec>>
                ELSE /\ files' = [files EXCEPT !["get_pointers"] =
                                     Write(@, e.text, CATEGORIES[g_category], g_spec)]
                     /\ spec' = e.self
                     /\ pc' = "for_spec"
                     /\ g_spec' = g_spec + 1
                     /\ UNCHANGED error
    /\ UNCHANGED <<parsed_specs, args, d_category, d_spec, category_specs, digested_specs,
                   specs, g_category, call, ncalls, value_in, rule, rule_values>>

\* Close output files, sys.exit(SUCCESS)
CloseFiles ==
    /\ pc = "for_spec"
    /\ g_category > Len(CATEGORIES)
    /\ files' = [s \in Streams |->
                    IF files[s].state = "open" THEN [files[s] EXCEPT !.state = "closed"]
                    ELSE files[s]]
    /\ pc' = "exit"
    /\ UNCHANGED <<parsed_specs, args, d_category, d_spec, category_specs, digested_specs,
                   specs, g_category, g_spec, spec, error, call, ncalls, value_in, rule, rule_values>>

Next ==
    \/ DigestSpec
    \/ DigestCategory
    \/ DigestReturn
    \/ OpenFiles
    \/ ForSpec
    \/ ForCategory
    \/ WriteSpecs
    \/ WriteDeclarePointers
    \/ WriteGetPointers
    \/ CloseFiles

\* --------------------------------------------------------------- inputs

\* Column names: read_specs hands them over in upper case, and digest upper-cases
\* whatever it is given.
c_NAME == <<"N","A","M","E">>
c_SHORT_NAME == <<"S","H","O","R","T","_","N","A","M","E">>
c_short_name == <<"s","h","o","r","t","_","n","a","m","e">>
c_LONG_NAME == <<"L","O","N","G","_","N","A","M","E">>
c_LONG_NAME_sp == <<"L","O","N","G"," ","N","A","M","E">>
c_UNITS == <<"U","N","I","T","S">>
c_DIMS == <<"D","I","M","S">>
c_dims == <<"d","i","m","s">>
c_VLOC == <<"V","L","O","C">>
c_VLOCATION == <<"V","L","O","C","A","T","I","O","N">>
c_UNGRID == <<"U","N","G","R","I","D">>
c_UNGRIDDED == <<"U","N","G","R","I","D","D","E","D">>
c_COND == <<"C","O","N","D">>
c_CONDITION == <<"C","O","N","D","I","T","I","O","N">>
c_ALLOC == <<"A","L","L","O","C">>
c_PREC == <<"P","R","E","C">>
c_RANK == <<"R","A","N","K">>
c_MANGLED_NAME == <<"M","A","N","G","L","E","D","_","N","A","M","E">>
c_INTERNAL_NAME == <<"I","N","T","E","R","N","A","L","_","N","A","M","E">>
c_ADDEXP == <<"A","D","D","E","X","P">>
c_FRIEND2 == <<"F","R","I","E","N","D","2">>
c_NUMSUBS == <<"N","U","M","S","U","B","S">>
c_AVINT == <<"A","V","I","N","T">>
c_ADD2EXPORT == <<"A","D","D","2","E","X","P","O","R","T">>
c_FRIENDLYTO == <<"F","R","I","E","N","D","L","Y","T","O">>
c_PRECISION == <<"P","R","E","C","I","S","I","O","N">>
c_NUM_SUBTILES == <<"N","U","M","_","S","U","B","T","I","L","E","S">>
c_AVERAGING_INTERVAL == <<"A","V","E","R","A","G","I","N","G","_","I","N","T","E","R","V","A","L">>
c_FOO == <<"F","O","O">>
c_foo == <<"f","o","o">>

\* One column of a spec: the column name and the cell.
Col(k, v) == [k |-> k, v |-> v]

\* The choices for each part of a spec: << >> is the column left out.
ShortNameColumns == {
    <<>>,
    <<Col(c_NAME, <<"T">>)>>,
    <<Col(c_SHORT_NAME, <<"T","*">>)>>,
    <<Col(c_short_name, <<"T">>)>>,
    <<Col(c_NAME, <<>>)>> }

LongNameColumns == {
    <<>>,
    <<Col(c_LONG_NAME, <<"L">>)>>,
    <<Col(c_LONG_NAME_sp, <<>>)>> }

UnitsColumns == {
    <<>>,
    <<Col(c_UNITS, <<"u">>)>>,
    <<Col(c_UNITS, <<>>)>> }

DimsColumns == {
    <<>>,
    <<Col(c_DIMS, <<"z">>)>>,
    <<Col(c_DIMS, <<"x","y">>)>>,
    <<Col(c_DIMS, <<"x","y","z">>)>>,
    <<Col(c_DIMS, <<"X","Y">>)>>,
    <<Col(c_DIMS, <<>>)>>,
    <<Col(c_dims, <<"x","y">>), Col(c_DIMS, <<"x","y","z">>)>> }

VlocationColumns == {
    <<>>,
    <<Col(c_VLOC, <<"C">>)>>,
    <<Col(c_VLOC, <<"E">>)>>,
    <<Col(c_VLOC, <<"N">>)>>,
    <<Col(c_VLOCATION, <<"N">>)>>,
    <<Col(c_VLOC, <<"X">>)>> }

\* Further columns, after the five above.
TrailingColumns == {
    <<>>,
    <<Col(c_UNGRID, <<"a",",","b">>)>>,
    <<Col(c_UNGRIDDED, <<"a">>)>>,
    <<Col(c_UNGRID, <<>>)>>,
    <<Col(c_UNGRID, <<",">>)>>,
    <<Col(c_UNGRID, <<"a">>), Col(c_UNGRIDDED, <<"a",",","b",",","c">>)>>,
    <<Col(c_RANK, <<"9">>)>>,
    <<Col(c_RANK, <<"9">>), Col(c_UNGRID, <<"a",",","b">>)>>,
    <<Col(c_COND, <<"c">>)>>,
    <<Col(c_CONDITION, <<>>)>>,
    <<Col(c_ALLOC, <<"T">>)>>,
    <<Col(c_ALLOC, <<"N","o">>)>>,
    <<Col(c_ALLOC, <<"m">>)>>,
    <<Col(c_ALLOC, <<>>)>>,
    <<Col(c_COND, <<"c">>), Col(c_ALLOC, <<" ","Y">>)>>,
    <<Col(c_COND, <<"c">>), Col(c_ALLOC, <<"m">>)>>,
    <<Col(c_PREC, <<"8">>)>>,
    <<Col(c_PREC, <<>>)>>,
    <<Col(c_MANGLED_NAME, <<"Q","*">>)>>,
    <<Col(c_INTERNAL_NAME, <<"Q","*">>)>>,
    <<Col(c_ADDEXP, <<"T">>)>>,
    <<Col(c_FRIEND2, <<"x">>)>>,
    <<Col(c_NUMSUBS, <<"4">>)>>,
    <<Col(c_AVINT, <<"6">>)>>,
    <<Col(c_FOO, <<"1">>)>>,
    <<Col(c_foo, <<"1">>)>> }

\* Further columns, before the five above.
LeadingColumns == {
    <<Col(c_RANK, <<"9">>)>>,
    <<Col(c_MANGLED_NAME, <<"Q","*">>), Col(c_INTERNAL_NAME, <<"Q","*">>)>>,
    <<Col(c_UNGRID, <<"a",",","b">>)>>,
    <<Col(c_FOO, <<"1">>)>> }

ShortName == <<Col(c_NAME, <<"T">>)>>
LongName == <<Col(c_LONG_NAME, <<"L">>)>>
Units == <<Col(c_UNITS, <<"u">>)>>

\* The specs of the single-spec inputs: the dims and vlocation columns vary freely,
\* with every choice of trailing or leading columns, or of the other mandatory columns.
Specs ==
    {ShortName \o LongName \o Units \o d \o v \o t :
        d \in DimsColumns, v \in VlocationColumns, t \in TrailingColumns}
    \cup {l \o ShortName \o LongName \o Units \o d \o v :
        l \in LeadingColumns, d \in DimsColumns, v \in VlocationColumns}
    \cup {n \o l \o u \o d \o v :
        n \in ShortNameColumns, l \in LongNameColumns, u \in UnitsColumns,
        d \in DimsColumns, v \in VlocationColumns}
    \cup {n \o LongName \o u \o <<Col(c_DIMS, <<"x","y","z">>), Col(c_VLOC, <<"C">>)>> \o t :
        n \in ShortNameColumns, u \in UnitsColumns, t \in TrailingColumns}

\* The specs of the inputs of several specs.
SomeSpecs == {
    <<Col(c_NAME, <<"T">>), Col(c_LONG_NAME, <<"L">>), Col(c_UNITS, <<"u">>),
      Col(c_DIMS, <<"x","y","z">>), Col(c_VLOC, <<"C">>)>>,
    <<Col(c_SHORT_NAME, <<"U","*">>), Col(c_LONG_NAME, <<"L">>), Col(c_UNITS, <<"u">>),
      Col(c_DIMS, <<"x","y">>), Col(c_VLOC, <<"N">>), Col(c_COND, <<"c">>),
      Col(c_ALLOC, <<"T">>)>>,
    <<Col(c_NAME, <<"V">>), Col(c_LONG_NAME, <<"L">>), Col(c_UNITS, <<"u">>),
      Col(c_DIMS, <<"z">>), Col(c_VLOC, <<"E">>), Col(c_ALLOC, <<"m">>)>>,
    <<Col(c_NAME, <<"W">>), Col(c_FOO, <<"1">>)>>,
    <<Col(c_NAME, <<"X">>), Col(c_LONG_NAME, <<"L">>), Col(c_UNITS, <<"u">>),
      Col(c_DIMS, <<"x","y","z">>), Col(c_VLOC, <<"N">>)>> }

MaxSpecs == 3

\* The lists of at most n specs of SomeSpecs.
RECURSIVE SpecLists(_)
SpecLists(n) ==
    IF n = 0 THEN {<<>>}
    ELSE SpecLists(n - 1) \cup
         {Append(l, x) : l \in {m \in SpecLists(n - 1) : Len(m) = n - 1}, x \in SomeSpecs}

\* The category blocks of an input, in the order of the file.
CategoryOrders == {<<IMPORT>>, <<INTERNAL>>, <<IMPORT, EXPORT>>, <<EXPORT, IMPORT>>}

\* An input of one or two categories: the specs of l, the first k in the first category.
Blocks(order, l, k) ==
    IF Len(order) = 1 THEN <<[k |-> order[1], v |-> l]>>
    ELSE <<[k |-> order[1], v |-> SubSeq(l, 1, k)],
           [k |-> order[2], v |-> SubSeq(l, k + 1, Len(l))]>>

Inputs ==
    {Blocks(order, l, k) :
        <<order, l, k>> \in {t \in CategoryOrders \X SpecLists(MaxSpecs) \X (0..MaxSpecs) :
                              /\ t[3] <= Len(t[2])
                              /\ Len(t[1]) = 1 => t[3] = 0}}

ArgsChoices == {Streams, {"import_specs", "declare_pointers"}}

\* The program run on an input of several specs in one or two categories.
Init ==
    /\ parsed_specs \in Inputs
    /\ args \in ArgsChoices
    /\ Start

Spec == Init /\ [][Next]_vars

\* digest given one spec, with columns spelled in any way, and the generation that
\* follows it, every output asked for.
InitOneSpec ==
    /\ parsed_specs \in {<<[k |-> IMPORT, v |-> <<s>>]>> : s \in Specs}
    /\ args = Streams
    /\ Start

SpecOneSpec == InitOneSpec /\ [][Next]_vars

\* ------------------------------------- direct calls of the emitters

MaxCalls == 3

\* The indent a MAPL_DataSpec is constructed with: the default, or none.
Indents == {0, DefaultIndent}

\* The specs that digest accepts.
DigestedSpecs == {s \in Specs : digest_spec(s).exc = NoError}

\* A MAPL_DataSpec of a digested spec, before any emitter was called on it.
InitEmit ==
    /\ parsed_specs \in {<<[k |-> c, v |-> <<s>>]>> : c \in {IMPORT, EXPORT}, s \in DigestedSpecs}
    /\ args = {}
    /\ pc = "object"
    /\ d_category = 1
    /\ d_spec = 1
    /\ category_specs = <<>>
    /\ digested_specs = <<>>
    /\ specs = Unbound
    /\ files = [s \in Streams |-> NotOpened]
    /\ g_category = 1
    /\ g_spec = 1
    /\ \E indent \in Indents, r \in {digest_spec(parsed_specs[1].v[1])} :
           spec = MAPL_DataSpec(Lower(parsed_specs[1].k), r.option_values, indent)
    /\ error = NoError
    /\ call = NoCall
    /\ ncalls = 0
    /\ value_in = None
    /\ rule = NoRule
    /\ rule_values = <<>>

\* The outcome e of the call of an emitter: the object is left as the emitter left
\* it, and an exception ends the sequence of calls.
Called(function, e) ==
    /\ call' = [function |-> function, exc |-> e.exc, text |-> e.text,
                indent_before |-> spec.indent]
    /\ spec' = e.self
    /\ ncalls' = ncalls + 1
    /\ error' = e.exc
    /\ pc' = IF e.exc # NoError THEN "raised" ELSE "object"
    /\ UNCHANGED <<parsed_specs, args, d_category, d_spec, category_specs, digested_specs,
                   specs, files, g_category, g_spec, value_in, rule, rule_values>>

\* spec.emit_specs()
CallEmitSpecs ==
    /\ pc = "object"
    /\ ncalls < MaxCalls
    /\ \E e \in {emit_specs(spec)} : Called("emit_specs", e)

\* spec.emit_declare_pointers()
CallEmitDeclarePointers ==
    /\ pc = "object"
    /\ ncalls < MaxCalls
    /\ \E e \in {emit_declare_pointers(spec)} : Called("emit_declare_pointers", e)

\* spec.emit_get_pointers()
CallEmitGetPointers ==
    /\ pc = "object"
    /\ ncalls < MaxCalls
    /\ \E e \in {emit_get_pointers(spec)} : Called("emit_get_pointers", e)

NextEmit ==
    \/ CallEmitSpecs
    \/ CallEmitDeclarePointers
    \/ CallEmitGetPointers

SpecEmit == InitEmit /\ [][NextEmit]_vars

\* ------------------------------------ direct calls of get_fortran_logical

MaxTokenLen == 3

\* The characters the tokens are made of.
TokenChars == {"n", "N", "o", "O", "y", " "}

\* The texts of n characters of TokenChars.
RECURSIVE TextsOfLen(_)
TextsOfLen(n) ==
    IF n = 0 THEN {<<>>}
    ELSE {Append(t, c) : t \in TextsOfLen(n - 1), c \in TokenChars}

\* Further tokens: every literal of the two sets in some case and with some
\* whitespace around it, and texts that are in neither set.
MoreTokens == {
    <<".","t","r","u","e",".">>, <<".","T","R","U","E",".">>, <<"t">>, <<"T"," ">>,
    <<"t","r","u","e">>, <<"T","r","u","E">>, <<".","t",".">>, <<".","T",".">>,
    <<"y","e","s">>, <<" ","Y","e","s","\t">>, <<"Y","\n">>, <<"s","i">>, <<"S","I">>,
    <<"o","u","i">>, <<"O","u","i">>, <<"s","i","m">>, <<"\t","S","i","M"," "," ">>,
    <<".","f","a","l","s","e",".">>, <<".","F","a","l","s","e",".">>, <<"f">>, <<"F">>,
    <<"f","a","l","s","e">>, <<" ","F","A","L","S","E">>, <<".","f",".">>, <<".","F",".">>,
    <<"n","o","n">>, <<"n","a","o">>, <<"N","A","O","\r","\n">>,
    <<"m","a","y","b","e">>, <<"t","r","u">>, <<".","t","r","u","e">>, <<"t"," ","r","u","e">>,
    <<"1">>, <<"0">>, <<"o","n">>, <<"o","f","f">>, <<"y","e","s","!">>, <<"s","i","n">>,
    <<".","t","r","u","e",".",".">>, <<"N","o","n","e">> }

Tokens == UNION {TextsOfLen(n) : n \in 0..MaxTokenLen} \cup MoreTokens \cup {None}

InitLogical ==
    /\ value_in \in Tokens
    /\ rule = NoRule
    /\ rule_values = <<>>
    /\ parsed_specs = <<>>
    /\ args = {}
    /\ pc = "call"
    /\ d_category = 1
    /\ d_spec = 1
    /\ category_specs = <<>>
    /\ digested_specs = <<>>
    /\ specs = Unbound
    /\ files = [s \in Streams |-> NotOpened]
    /\ g_category = 1
    /\ g_spec = 1
    /\ spec = NoSpec
    /\ error = NoError
    /\ call = NoCall
    /\ ncalls = 0

\* get_fortran_logical(value_in)
CallGetFortranLogical ==
    /\ pc = "call"
    /\ \E r \in {get_fortran_logical(value_in)} :
           /\ call' = [function |-> "get_fortran_logical", exc |-> r.exc,
                       text |-> <<r.val_out>>, indent_before |-> 0]
           /\ error' = r.exc
           /\ pc' = IF r.exc # NoError THEN "raised" ELSE "return"
    /\ ncalls' = ncalls + 1
    /\ UNCHANGED <<parsed_specs, args, d_category, d_spec, category_specs, digested_specs,
                   specs, files, g_category, g_spec, spec, value_in, rule, rule_values>>

NextLogical == CallGetFortranLogical

SpecLogical == InitLogical /\ [][NextLogical]_vars

\* ------------------------------------------------------------ direct calls of Rule.check

MaxConditions == 3

\* The conditions a Rule is built from: an Option, a relation, the expected value
\* and the message of the condition.
Conditions ==
    { condition(o, "equals", <<"x">>, "is x") : o \in {"DIMS", "VLOCATION"} }
        \cup { condition(o, "does_not_equal", <<"x">>, "is not x") : o \in {"DIMS", "VLOCATION"} }

\* The lists of conditions of a Rule.
ConditionLists ==
    UNION { [1..n -> Conditions] : n \in 0..MaxConditions }

\* The values a Rule is checked on: a dict that holds each of the two options or
\* not, the value a text or None.
RuleValues ==
    { d \o v : d \in {<<>>} \cup { <<[k |-> "DIMS", v |-> x]>> : x \in {<<"x">>, <<"y">>, None} },
               v \in {<<>>} \cup { <<[k |-> "VLOCATION", v |-> x]>> : x \in {<<"x">>, <<"y">>, None} } }

\* Rule(conditions, joiner), joiner all or any
InitRule ==
    /\ rule \in [conditions : ConditionLists, joiner : {"all", "any"}]
    /\ rule_values \in RuleValues
    /\ value_in = None
    /\ parsed_specs = <<>>
    /\ args = {}
    /\ pc = "call"
    /\ d_category = 1
    /\ d_spec = 1
    /\ category_specs = <<>>
    /\ digested_specs = <<>>
    /\ specs = Unbound
    /\ files = [s \in Streams |-> NotOpened]
    /\ g_category = 1
    /\ g_spec = 1
    /\ spec = NoSpec
    /\ error = NoError
    /\ call = NoCall
    /\ ncalls = 0

\* rule.check(values)
CallRuleCheck ==
    /\ pc = "call"
    /\ rule # NoRule
    /\ \E e \in {rule_check(rule.conditions, rule.joiner, rule_values)} :
           /\ call' = [function |-> "Rule.check", exc |-> e,
                       text |-> <<>>, indent_before |-> 0]
           /\ error' = e
           /\ pc' = IF e # NoError THEN "raised" ELSE "return"
    /\ ncalls' = ncalls + 1
    /\ UNCHANGED <<parsed_specs, args, d_category, d_spec, category_specs, digested_specs,
                   specs, files, g_category, g_spec, spec, value_in, rule, rule_values>>

SpecRule == InitRule /\ [][CallRuleCheck]_vars

\* ------------------------------------------------------------ properties

EmitFunctions == {"emit_specs", "emit_declare_pointers", "emit_get_pointers"}

\* C1: whatever emitters were called on a MAPL_DataSpec before, in whatever order,
\* and whether it has a condition or not, an emitter that returns leaves the indent
\* of the object as it found it.
C1_IndentRestored ==
    (call.function \in EmitFunctions /\ call.exc = NoError)
        => spec.indent = call.indent_before

\* C1: emit_get_pointers returned as the second or a later call on a spec that has
\* a condition and an alloc value, so that emit_header raised the indent.
C1_Witness ==
    /\ ncalls >= 2
    /\ call.function = "emit_get_pointers"
    /\ call.exc = NoError
    /\ Truthy(spec.condition)
    /\ Truthy(Get(spec.spec_values, "ALLOC"))
    /\ spec.indent = call.indent_before

\* The mandatory options, as the schema lists them.
MandatoryNames == <<"SHORT_NAME", "LONG_NAME", "UNITS", "DIMS">>

\* C2: once digest has returned, every record of its result has, for each
\* mandatory option, a value that is present and is not None.
C2_MandatoryValuesPresent ==
    specs.bound =>
        \A c \in DOMAIN specs.value : \A i \in DOMAIN specs.value[c].v :
            \A m \in DOMAIN MandatoryNames :
                /\ HasKey(specs.value[c].v[i], MandatoryNames[m])
                /\ GetItem(specs.value[c].v[i], MandatoryNames[m]) # None

\* The spec of an input of one spec, and the option each of its columns names.
TheSpec == parsed_specs[1].v[1]

ColumnKey(column) == Str(Upper(column.k))

AllRecognized(row) == \A i \in DOMAIN row : IsOptionName(ColumnKey(row[i]))

HasColumn(row, option) == \E i \in DOMAIN row : OptionLookup(ColumnKey(row[i])) = option

\* digest is done with the first spec: it raised, or it digested the spec.
DigestedFirst == error # NoError \/ category_specs # <<>> \/ d_category > 1

\* C3: a spec whose columns are all recognized and that has no column for some
\* mandatory option makes digest raise "<option> is missing from spec." for the
\* first such option of the schema, whatever its other columns hold.
C3_MissingMandatory ==
    (DigestedFirst /\ AllRecognized(TheSpec)) =>
        \A m \in DOMAIN MandatoryNames :
            (/\ ~HasColumn(TheSpec, MandatoryNames[m])
             /\ \A n \in 1..(m - 1) : HasColumn(TheSpec, MandatoryNames[n]))
            => /\ pc = "raised"
               /\ error.exc = "RuntimeError"
               /\ error.raised = "mandatory"
               /\ error.msg = <<MandatoryNames[m], " is missing from spec.">>

\* C3: digest raised "UNITS is missing from spec." for a spec that has no units
\* column and whose dims and vlocation are the forbidden pair xyz, N.
C3_Witness ==
    /\ error.msg = <<"UNITS", " is missing from spec.">>
    /\ \E i, j \in DOMAIN TheSpec :
           /\ TheSpec[i] = Col(c_DIMS, <<"x","y","z">>)
           /\ TheSpec[j] = Col(c_VLOC, <<"N">>)

\* The cell of the last column of row that names option: the one digest keeps.
LastCell(row, option) ==
    row[CHOOSE i \in DOMAIN row :
            /\ OptionLookup(ColumnKey(row[i])) = option
            /\ \A j \in DOMAIN row : OptionLookup(ColumnKey(row[j])) = option => j <= i].v

\* digest digested the first spec without raising.
DigestSucceeded == category_specs # <<>> \/ d_category > 1

\* digest raised the RuntimeError of a rule, with this message.
RuleViolation(message) ==
    /\ pc = "raised"
    /\ error.exc = "RuntimeError"
    /\ error.raised = "rule_check"
    /\ Str(error.msg) = message

\* The spec has recognized columns only, a column for each mandatory option and
\* a vlocation column, with recognized codes for dims and vlocation.
HasDimsAndVlocation(row) ==
    /\ AllRecognized(row)
    /\ \A m \in DOMAIN MandatoryNames : HasColumn(row, MandatoryNames[m])
    /\ HasColumn(row, "VLOCATION")
    /\ LastCell(row, "DIMS") \in {<<"z">>, <<"x","y">>, <<"x","y","z">>}
    /\ LastCell(row, "VLOCATION") \in {<<"C">>, <<"E">>, <<"N">>}

\* C4: of the specs with dims z, xy or xyz and vlocation C, E or N, digest
\* rejects xyz with N, and xy with C or E, with a RuntimeError whose message is
\* the two phrases of the rule joined by " and "; it accepts every other pair.
C4_RuleViolations ==
    (DigestedFirst /\ HasDimsAndVlocation(TheSpec)) =>
        IF LastCell(TheSpec, "DIMS") = <<"x","y","z">> /\ LastCell(TheSpec, "VLOCATION") = <<"N">>
        THEN RuleViolation("dims is equal to MAPL_DimsHorzVert" \o " and "
                           \o "vlocation is equal to MAPL_VlocationNone")
        ELSE IF LastCell(TheSpec, "DIMS") = <<"x","y">> /\ LastCell(TheSpec, "VLOCATION") # <<"N">>
        THEN RuleViolation("dims is equal to MAPL_DimsHorzOnly" \o " and "
                           \o "vlocation is not equal to MAPL_VlocationNone")
        ELSE DigestSucceeded

\* C4: digest rejected a spec with dims xy and vlocation E by the second rule.
C4_Witness ==
    /\ HasDimsAndVlocation(TheSpec)
    /\ LastCell(TheSpec, "DIMS") = <<"x","y">>
    /\ LastCell(TheSpec, "VLOCATION") = <<"E">>
    /\ RuleViolation("dims is equal to MAPL_DimsHorzOnly and vlocation is not equal to MAPL_VlocationNone")

\* The number of comma-separated tokens of a text that is not empty.
TokenCount(text) == Cardinality({i \in DOMAIN text : text[i] = ","}) + 1

\* The rank the cells of a spec call for.
RankOfCells(row) ==
    (CASE LastCell(row, "DIMS") = <<"z">> -> 1
       [] LastCell(row, "DIMS") = <<"x","y">> -> 2
       [] LastCell(row, "DIMS") = <<"x","y","z">> -> 3)
    + (IF HasColumn(row, "UNGRIDDED") /\ LastCell(row, "UNGRIDDED") # <<>>
       THEN TokenCount(LastCell(row, "UNGRIDDED"))
       ELSE 0)

\* The rank the dims and ungridded values of a record call for.
RankOfValues(record) ==
    (CASE GetItem(record, "DIMS") = <<"MAPL_DimsVertOnly">> -> 1
       [] GetItem(record, "DIMS") = <<"MAPL_DimsHorzOnly">> -> 2
       [] GetItem(record, "DIMS") = <<"MAPL_DimsHorzVert">> -> 3)
    + (IF HasKey(record, "UNGRIDDED") /\ GetItem(record, "UNGRIDDED") # None
       THEN TokenCount(GetItem(record, "UNGRIDDED"))
       ELSE 0)

\* C5: the rank of the record digest returns for a spec is the base rank of its
\* dims plus the number of comma-separated tokens of its ungridded cell, whatever
\* other columns the spec has, a RANK column included, and it is the rank that
\* the dims and ungridded values of the record call for.
C5_Rank ==
    specs.bound =>
        /\ GetItem(specs.value[1].v[1], "RANK") = RankOfCells(TheSpec)
        /\ GetItem(specs.value[1].v[1], "RANK") = RankOfValues(specs.value[1].v[1])

\* C5: digest returned a record of rank 5 for a spec with dims xyz, a RANK
\* column holding 9 and an ungridded cell of two tokens.
C5_Witness ==
    /\ specs.bound
    /\ \E i, j \in DOMAIN TheSpec :
           /\ TheSpec[i] = Col(c_RANK, <<"9">>)
           /\ TheSpec[j] = Col(c_UNGRID, <<"a",",","b">>)
    /\ LastCell(TheSpec, "DIMS") = <<"x","y","z">>
    /\ GetItem(specs.value[1].v[1], "RANK") = 5

\* The texts written to stream s for a spec: all but the header.
Fragments(s) == SelectSeq(files[s].written, LAMBDA w : w.index # 0)

\* C6: when an exception has ended the program, whether digest or an emitter
\* raised it, no output file holds the text emitted for any spec.
C6_NoPartialOutput ==
    pc = "raised" => \A s \in Streams : Fragments(s) = <<>>

\* digest raised: the program ended before digest returned.
DigestRaised == pc = "raised" /\ ~specs.bound

\* The spec digest was at when it raised.
FailedSpec == parsed_specs[d_category].v[d_spec]

\* The columns of row that name no Option.
Unrecognized(row) == {i \in DOMAIN row : ~IsOptionName(ColumnKey(row[i]))}

\* The places where digest, or what it calls, raises.
DigestRaiseSites == {"Option[column.upper()]", "mandatory", "RANKS[dims]", "values[lhs]",
                     "values[rhs]", "rule_check"}

\* C7: digest returns only if every column of every spec names an Option; at a
\* spec with a column that names none it raises KeyError for the first such
\* column, upper-cased, whatever else the spec holds; and when digest raises,
\* at whatever spec and for whatever reason, no result of it is bound, not even
\* the lists of the categories digested before.
C7_UnknownOption ==
    /\ specs.bound =>
           \A c \in DOMAIN parsed_specs : \A i \in DOMAIN parsed_specs[c].v :
               AllRecognized(parsed_specs[c].v[i])
    /\ (DigestRaised /\ ~AllRecognized(FailedSpec)) =>
           /\ error.exc = "KeyError"
           /\ error.raised = "Option[column.upper()]"
           /\ \E i \in Unrecognized(FailedSpec) :
                  /\ \A j \in Unrecognized(FailedSpec) : i <= j
                  /\ error.msg = <<ColumnKey(FailedSpec[i])>>
    /\ (error.raised \in DigestRaiseSites) => (pc = "raised" /\ specs = Unbound)

\* C7: digest raised KeyError('FOO') at a spec of the second category, after it
\* had digested the first category.
C7_Witness ==
    /\ DigestRaised
    /\ error.exc = "KeyError"
    /\ error.msg = <<"FOO">>
    /\ d_category = 2
    /\ digested_specs # <<>>
    /\ digested_specs[1].v # <<>>
    /\ specs = Unbound

\* Two dicts with the same keys in the same order and the same value for each.
SameDict(a, b) ==
    /\ Keys(a) = Keys(b)
    /\ \A i \in DOMAIN a : a[i].v = b[i].v

\* C10: the result digest returns has the categories of its argument, in the
\* same order, and for each category as many records as the category has
\* specs, the i-th record being the one digested from the i-th spec.
C10_OrderPreserved ==
    specs.bound =>
        /\ Len(specs.value) = Len(parsed_specs)
        /\ \A c \in DOMAIN parsed_specs :
               /\ specs.value[c].k = parsed_specs[c].k
               /\ Len(specs.value[c].v) = Len(parsed_specs[c].v)
               /\ \A i \in DOMAIN parsed_specs[c].v :
                      SameDict(specs.value[c].v[i],
                               digest_spec(parsed_specs[c].v[i]).option_values)

\* C10: digest returned for an argument of two categories, the first of which
\* has two different specs.
C10_Witness ==
    /\ specs.bound
    /\ Len(parsed_specs) = 2
    /\ Len(parsed_specs[1].v) = 2
    /\ parsed_specs[1].v[1] # parsed_specs[1].v[2]
    /\ Len(specs.value[1].v) = 2
    /\ Len(specs.value[2].v) = 1

\* The pairs of names of one option.
AliasPairs == <<
    <<c_NAME, c_SHORT_NAME>>, <<c_LONG_NAME_sp, c_LONG_NAME>>, <<c_VLOC, c_VLOCATION>>,
    <<c_ADDEXP, c_ADD2EXPORT>>, <<c_UNGRID, c_UNGRIDDED>>, <<c_FRIEND2, c_FRIENDLYTO>>,
    <<c_PREC, c_PRECISION>>, <<c_NUMSUBS, c_NUM_SUBTILES>>, <<c_AVINT, c_AVERAGING_INTERVAL>>,
    <<c_COND, c_CONDITION>> >>

\* A name in upper case, in lower case, capitalized, and in alternating case.
CaseVariants(name) ==
    {Upper(name), Lower(name), Capitalize(name),
     [i \in DOMAIN name |-> IF i % 2 = 0 THEN LowerChar(name[i]) ELSE UpperChar(name[i])]}

\* The spellings a column may be given instead of name: those of the two names
\* of its pair.
Spellings(name) ==
    UNION {CaseVariants(AliasPairs[p][1]) \cup CaseVariants(AliasPairs[p][2]) :
              p \in {q \in DOMAIN AliasPairs :
                        Upper(name) \in {AliasPairs[q][1], AliasPairs[q][2]}}}

\* The spec with its i-th column named n, when no other column has that name.
Renamed(row, i, n) == [row EXCEPT ![i].k = n]

CanRename(row, i, n) == \A j \in DOMAIN row : j # i => row[j].k # n

\* digest is just done with the first spec.
JustDigested == DigestRaised \/ (pc = "digest" /\ category_specs # <<>>)

\* What digest did with the first spec is the outcome r.
SameOutcome(r) ==
    IF r.exc # NoError
    THEN pc = "raised" /\ error = r.exc
    ELSE /\ pc = "digest"
         /\ SameDict(category_specs[1], r.option_values)

\* C8: whichever column of a spec is one of the ten pairs of names, and whichever
\* way it is spelled, digest does with the spec what it does with the spec that
\* has that column spelled any other way, by either name of the pair and in
\* another letter case: the same record, key for key and value for value, or the
\* same exception.
C8_AliasesAgree ==
    JustDigested =>
        \A i \in DOMAIN TheSpec : \A n \in Spellings(TheSpec[i].k) :
            CanRename(TheSpec, i, n) =>
                \A r \in {digest_spec(Renamed(TheSpec, i, n))} : SameOutcome(r)

\* C8: digest returned a record with a short name and a vlocation for a spec
\* whose columns are spelled short_name and VLOC, which have other spellings.
C8_Witness ==
    /\ pc = "digest"
    /\ category_specs # <<>>
    /\ \E i, j \in DOMAIN TheSpec :
           /\ TheSpec[i].k = c_short_name
           /\ TheSpec[j].k = c_VLOC
           /\ c_SHORT_NAME \in Spellings(TheSpec[i].k)
           /\ c_NAME \in Spellings(TheSpec[i].k)
           /\ c_VLOCATION \in Spellings(TheSpec[j].k)
    /\ HasKey(category_specs[1], "SHORT_NAME")
    /\ HasKey(category_specs[1], "VLOCATION")

\* The true-tokens and the false-tokens, character by character.
TrueTokens == {
    <<".","t","r","u","e",".">>, <<"t">>, <<"t","r","u","e">>,
    <<".","t",".">>, <<"y","e","s">>, <<"y">>,
    <<"s","i">>, <<"o","u","i">>, <<"s","i","m">> }

FalseTokens == {
    <<".","f","a","l","s","e",".">>, <<"f">>, <<"f","a","l","s","e">>,
    <<".","f",".">>, <<"n","o">>, <<"n">>,
    <<"n","o","n">>, <<"n","a","o">> }

Blanks == {" ", "\t", "\n", "\r", "\f"}

\* text is a token of tokens in some letter case, between blanks.
IsToken(text, tokens) ==
    \E t \in tokens : \E a \in 0..Len(text) :
        /\ a + Len(t) <= Len(text)
        /\ \A i \in 1..Len(text) :
               IF i <= a \/ i > a + Len(t)
               THEN text[i] \in Blanks
               ELSE text[i] \in {t[i - a], UpperChar(t[i - a])}

\* C9: get_fortran_logical returns '.true.' for a true-token and '.false.' for a
\* false-token, in any letter case and with blanks around it, and raises
\* ValueError for any other text and for None; no text is of both kinds.
C9_FortranLogical ==
    /\ TRUE_VALUES \cap FALSE_VALUES = {}
    /\ pc # "call" =>
           IF value_in # None /\ IsToken(value_in, TrueTokens)
           THEN /\ pc = "return"
                /\ call.text = <<".true.">>
                /\ ~IsToken(value_in, FalseTokens)
           ELSE IF value_in # None /\ IsToken(value_in, FalseTokens)
           THEN /\ pc = "return"
                /\ call.text = <<".false.">>
           ELSE /\ pc = "raised"
                /\ error.exc = "ValueError"
                /\ error.raised = "get_fortran_logical"

\* C9: get_fortran_logical returned '.true.' for ' Yes' followed by a tab.
C9_Witness ==
    /\ pc = "return"
    /\ value_in = <<" ","Y","e","s","\t">>
    /\ call.function = "get_fortran_logical"
    /\ call.text = <<".true.">>

\* The positions of the named arguments of a fragment: the piece before each "=".
ArgPositions(text) == {i \in DOMAIN text : i < Len(text) /\ text[i + 1] = "="}

\* The k-th smallest element of a set of numbers.
RECURSIVE Nth(_, _)
Nth(s, k) ==
    IF k = 1 THEN CHOOSE i \in s : \A j \in s : i <= j
    ELSE Nth(s \ {CHOOSE i \in s : \A j \in s : i <= j}, k - 1)

\* The value of the argument named at position i: the pieces after the "=" up
\* to the next delimiter.
ArgValue(text, i) ==
    SubSeq(text, i + 2,
           (CHOOSE j \in (i + 2)..Len(text) :
                /\ text[j] = ", "
                /\ \A k \in (i + 2)..(j - 1) : text[k] # ", ") - 1)

\* The named arguments of a fragment, in order: <<name, value>> each.
Args(text) ==
    [k \in 1..Cardinality(ArgPositions(text)) |->
        <<text[Nth(ArgPositions(text), k)], ArgValue(text, Nth(ArgPositions(text), k))>>]

\* The options that are not output.
NotOutput == {"CONDITION", "ALLOC", "MANGLED_NAME", "INTERNAL_NAME", "RANK"}

\* The attributes of a record that are output and have a value, in the order of
\* the record.
OutputAttributes(record) ==
    SelectSeq(record, LAMBDA e : e.k \notin NotOutput /\ e.v # None /\ e.v # <<>>)

\* C11: the text emit_specs returns has one named argument for each attribute of
\* the record that is output and has a value, with that value, in the order of
\* the record, and none named condition, alloc, mangled_name, internal_name or
\* rank.
C11_RegistrationArguments ==
    (call.function = "emit_specs" /\ call.exc = NoError) =>
        /\ Args(call.text) =
               [k \in DOMAIN OutputAttributes(spec.spec_values) |->
                   <<name_key(OutputAttributes(spec.spec_values)[k].k),
                     OutputAttributes(spec.spec_values)[k].v>>]
        /\ \A k \in DOMAIN Args(call.text) :
               Args(call.text)[k][1] \notin
                   {"condition", "alloc", "mangled_name", "internal_name", "rank"}

\* C11: emit_specs returned five arguments for a record that also has a
\* condition and an alloc value.
C11_Witness ==
    /\ call.function = "emit_specs"
    /\ HasKey(spec.spec_values, "CONDITION")
    /\ HasKey(spec.spec_values, "ALLOC")
    /\ Len(Args(call.text)) = 5

\* The pieces a conditional guard is made of.
GuardPieces == {"if (", ") then", "else", "   nullify(", "endif"}

\* The number of pieces of text that are piece.
Count(text, piece) == Cardinality({i \in DOMAIN text : text[i] = piece})

\* C12: the text emit_declare_pointers returns has no piece of a guard, whether
\* the record has a condition or not; it declares as many dimensions as the
\* rank of the record, and the name it declares is the internal name.
C12_Declaration ==
    (call.function = "emit_declare_pointers" /\ call.exc = NoError) =>
        /\ \A i \in DOMAIN call.text : call.text[i] \notin GuardPieces
        /\ Count(call.text, "dimension(:") = 1
        /\ Count(call.text, "dimension(:") + Count(call.text, ",:")
               = GetItem(spec.spec_values, "RANK")
        /\ \E i \in DOMAIN call.text :
               /\ call.text[i] = " :: "
               /\ SubSeq(call.text, i + 1, Len(call.text)) = spec.internal_name

\* C12: emit_declare_pointers returned the declaration of three dimensions for
\* a record of rank 3 that has a condition.
C12_Witness ==
    /\ call.function = "emit_declare_pointers"
    /\ call.exc = NoError
    /\ Truthy(spec.condition)
    /\ GetItem(spec.spec_values, "RANK") = 3
    /\ Count(call.text, ",:") = 2

\* The pieces of a fragment that give it its shape, in order: those of a guard
\* and the calls.
Shape(text) ==
    SelectSeq(text, LAMBDA p : p \in GuardPieces
                                  \cup {"call MAPL_GetPointer(", "call MAPL_Add"})

\* The pieces of text between its first piece a and the next piece b.
Between(text, a, b) ==
    SubSeq(text,
           (CHOOSE i \in DOMAIN text : text[i] = a /\ \A j \in 1..(i - 1) : text[j] # a) + 1,
           (CHOOSE k \in DOMAIN text :
                /\ text[k] = b
                /\ \E i \in 1..(k - 1) : text[i] = a
                /\ \A j \in 1..(k - 1) : text[j] = b => \A i \in 1..j : text[i] # a) - 1)

\* C13: the text emit_get_pointers returns is guarded exactly when the record
\* has a condition: with one it is if (condition) then, the call, else,
\* nullify(internal name), endif; without one it is the call alone.
C13_RetrievalGuard ==
    (call.function = "emit_get_pointers" /\ call.exc = NoError) =>
        IF spec.condition # None /\ spec.condition # <<>>
        THEN /\ Shape(call.text) = <<"if (", ") then", "call MAPL_GetPointer(", "else",
                                     "   nullify(", "endif">>
             /\ Between(call.text, "if (", ") then") = spec.condition
             /\ Between(call.text, "   nullify(", ")") = spec.internal_name
        ELSE Shape(call.text) = <<"call MAPL_GetPointer(">>

\* C13: emit_get_pointers returned a guarded text for a record with a condition.
C13_Witness ==
    /\ call.function = "emit_get_pointers"
    /\ call.exc = NoError
    /\ spec.condition = <<"c">>
    /\ Len(Shape(call.text)) = 6

\* C14: the text emit_specs returns is guarded exactly when the record has a
\* condition: with one it is if (condition) then, the call, endif, without an
\* else branch; without one it is the call alone.
C14_RegistrationGuard ==
    (call.function = "emit_specs" /\ call.exc = NoError) =>
        IF spec.condition # None /\ spec.condition # <<>>
        THEN /\ Shape(call.text) = <<"if (", ") then", "call MAPL_Add", "endif">>
             /\ Between(call.text, "if (", ") then") = spec.condition
        ELSE Shape(call.text) = <<"call MAPL_Add">>

\* C14: emit_specs returned a guarded text for a record with a condition.
C14_Witness ==
    /\ call.function = "emit_specs"
    /\ call.exc = NoError
    /\ spec.condition = <<"c">>
    /\ Len(Shape(call.text)) = 4

\* The phrase of a condition: the name of its attribute, a blank, its message.
PhraseOf(c) == <<IF c.option = "DIMS" THEN "dims" ELSE "vlocation", " ", c.message>>

\* The phrases of the conditions from k on, with sep between two of them.
RECURSIVE PhrasesFrom(_, _, _)
PhrasesFrom(cs, k, sep) ==
    IF k > Len(cs) THEN <<>>
    ELSE IF k = Len(cs) THEN PhraseOf(cs[k])
    ELSE PhraseOf(cs[k]) \o <<sep>> \o PhrasesFrom(cs, k + 1, sep)

\* Condition i of the rule names an attribute the values hold.
Present(i) == HasKey(rule_values, rule.conditions[i].option)

\* Condition i of the rule is true of the values.
IsTrue(i) ==
    /\ Present(i)
    /\ IF rule.conditions[i].rel = "equals"
       THEN GetItem(rule_values, rule.conditions[i].option) = rule.conditions[i].expected
       ELSE GetItem(rule_values, rule.conditions[i].option) # rule.conditions[i].expected

\* Condition i is evaluated: no earlier condition ended the evaluation, which a
\* condition on an attribute the values do not hold does, and a true condition
\* of a rule with the joiner any.
Evaluated(i) ==
    \A j \in 1..(i - 1) : Present(j) /\ ~(rule.joiner = "any" /\ IsTrue(j))

BlockOf(category) == CHOOSE c \in DOMAIN parsed_specs : parsed_specs[c].k = category

\* The spec a text was written for comes before the spec of another in the input.
RowBefore(w1, w2) ==
    \/ BlockOf(w1.category) < BlockOf(w2.category)
    \/ BlockOf(w1.category) = BlockOf(w2.category) /\ w1.index < w2.index

\* C16: in every output file the texts written for the specs are in the order of
\* the specs in the input, in whatever order the input has the categories.
C16_InputOrder ==
    \A s \in Streams :
        \A p, q \in DOMAIN Fragments(s) :
            p < q => RowBefore(Fragments(s)[p], Fragments(s)[q])

\* The alloc value of the record, None when it has none.
AllocValue == Get(spec.spec_values, "ALLOC")

\* The record has an alloc value that is not empty.
HasAlloc == AllocValue # None /\ AllocValue # <<>>

\* C17: the arguments of the call emit_get_pointers returns are the category, the
\* internal name, the mangled name, then alloc=.true. or alloc=.false. for the
\* true-token or false-token the record has as alloc value, and no alloc
\* argument when the record has no alloc value or an empty one, then _RC. Without
\* an alloc value, or with an empty one, emit_get_pointers raises no ValueError;
\* with an alloc value that is no token of either kind it raises ValueError.
C17_RetrievalArguments ==
    call.function = "emit_get_pointers" =>
        /\ (HasAlloc /\ ~IsToken(AllocValue, TrueTokens) /\ ~IsToken(AllocValue, FalseTokens))
               => (call.exc.exc = "ValueError" /\ call.exc.raised = "get_fortran_logical")
        /\ ~HasAlloc => call.exc.exc # "ValueError"
        /\ call.exc = NoError =>
               /\ Count(call.text, "call MAPL_GetPointer(") = 1
               /\ Count(call.text, "_RC)") = 1
               /\ Between(call.text, "call MAPL_GetPointer(", "_RC)") =
                      spec.category \o <<", ">> \o spec.internal_name \o <<", ">>
                          \o spec.mangled_name \o <<", ">>
                          \o (IF ~HasAlloc THEN <<>>
                              ELSE IF IsToken(AllocValue, TrueTokens)
                              THEN <<"alloc", "=", ".true.", ", ">>
                              ELSE <<"alloc", "=", ".false.", ", ">>)

\* C17: emit_get_pointers returned the call with alloc=.false. for a record whose
\* alloc value is No.
C17_Witness ==
    /\ call.function = "emit_get_pointers"
    /\ call.exc = NoError
    /\ AllocValue = <<"N", "o">>
    /\ Count(call.text, ".false.") = 1

\* The mangled name and the internal name a short-name cell calls for.
DerivedMangledName(cell) ==
    IF cell = <<>> THEN None
    ELSE <<"'">> \o [i \in DOMAIN cell |->
                        IF cell[i] = "*" THEN "'//trim(comp_name)//'" ELSE cell[i]] \o <<"'">>

DerivedInternalName(cell) ==
    IF cell = <<>> THEN None ELSE SelectSeq(cell, LAMBDA ch : ch # "*")

\* C18: in the record digest returns for a spec, the mangled name and the
\* internal name are those its short-name cell calls for, whatever other columns
\* the spec has.
C18_NamesDerived ==
    specs.bound =>
        /\ GetItem(specs.value[1].v[1], "MANGLED_NAME")
               = DerivedMangledName(LastCell(TheSpec, "SHORT_NAME"))
        /\ GetItem(specs.value[1].v[1], "INTERNAL_NAME")
               = DerivedInternalName(LastCell(TheSpec, "SHORT_NAME"))

\* The spec has a column for each mandatory option, the cell not empty and the
\* dims cell one of the codes.
MandatoryCellsValid(row) ==
    /\ \A m \in DOMAIN MandatoryNames :
           HasColumn(row, MandatoryNames[m]) /\ LastCell(row, MandatoryNames[m]) # <<>>
    /\ LastCell(row, "DIMS") \in {<<"z">>, <<"x","y">>, <<"x","y","z">>}

\* C19: a spec whose columns are all recognized, whose mandatory cells are valid
\* and that has no vlocation column makes digest raise nothing but the
\* RuntimeError of a rule, and is digested when its dims are z or xyz.
C19_VlocationOptional ==
    (/\ DigestedFirst
     /\ AllRecognized(TheSpec)
     /\ MandatoryCellsValid(TheSpec)
     /\ ~HasColumn(TheSpec, "VLOCATION")) =>
        /\ error # NoError => (error.exc = "RuntimeError" /\ error.raised = "rule_check")
        /\ LastCell(TheSpec, "DIMS") \in {<<"z">>, <<"x","y","z">>} => DigestSucceeded

\* C20: a spec whose columns are all recognized, that has a column for each
\* mandatory option and whose dims cell is none of z, xy, xyz makes digest raise
\* "DIMS is missing from spec."; compute_rank is never reached with a dims value
\* of None.
C20_UnrecognizedDims ==
    /\ (/\ DigestedFirst
        /\ AllRecognized(TheSpec)
        /\ \A m \in DOMAIN MandatoryNames : HasColumn(TheSpec, MandatoryNames[m])
        /\ LastCell(TheSpec, "DIMS") \notin {<<"z">>, <<"x","y">>, <<"x","y","z">>}) =>
            /\ pc = "raised"
            /\ error.exc = "RuntimeError"
            /\ error.raised = "mandatory"
            /\ error.msg = <<"DIMS", " is missing from spec.">>
    /\ error.raised # "RANKS[dims]"

\* The precision value of the record, None when it has none.
PrecisionValue == Get(spec.spec_values, "PRECISION")

\* C21: the text emit_declare_pointers returns has a kind qualifier exactly when
\* the record has a precision value that is not empty: none for a record without
\* a precision value, and none for one whose precision value is the empty text.
C21_KindQualifier ==
    (call.function = "emit_declare_pointers" /\ call.exc = NoError) =>
        IF PrecisionValue # None /\ PrecisionValue # <<>>
        THEN /\ Count(call.text, "(kind=") = 1
             /\ Between(call.text, "(kind=", ")") = PrecisionValue
        ELSE Count(call.text, "(kind=") = 0

=============================================================================
